---- MODULE Spec2Model ----
(***************************************************************************)
(* Model of the bootz client emulator (client/client.go): the run of main  *)
(* from loading the root CA to ReportStatus, and validateArtifacts, the    *)
(* check of the ownership voucher, ownership certificate and response      *)
(* signature of a GetBootstrapDataResponse; and of the bootz server's two   *)
(* entry points (server/server.go) from their flags to Serve.              *)
(*                                                                         *)
(* Cryptographic values are symbolic.  A certificate names its subject,    *)
(* the subject that issued it and its public key; a signature names the    *)
(* key that made it and the digest it was made over; base64 text and PEM   *)
(* blocks are tagged with whether they decode.                             *)
(***************************************************************************)
EXTENDS Integers, Sequences, FiniteSets, TLC

\* client.go:30
nonceLength == 16

\* Largest byte value the modelled random source produces.
MaxByte == 1

\* The nil error.
Nil == "nil"

----------------------------------------------------------------------------
(* Certificates, DER bodies and PEM blocks *)

Cert(subject, issuer, keyType) ==
    [subject |-> subject, issuer |-> issuer, keyType |-> keyType, key |-> subject]

NoCert == [subject |-> "", issuer |-> "", keyType |-> "", key |-> ""]

VendorCACert == Cert("vendorca", "vendorca", "rsa")
RogueCACert  == Cert("rogueca", "rogueca", "rsa")
PDCCert      == Cert("pdc", "pdc", "rsa")
RoguePDCCert == Cert("roguepdc", "roguepdc", "rsa")
OCCert       == Cert("oc", "pdc", "rsa")
OCCertEC     == Cert("oc_ec", "pdc", "ecdsa")
RogueOCCert  == Cert("rogueoc", "roguepdc", "rsa")

\* A DER body: either the encoding of a certificate or bytes that are none.
DerOf(cert) == [ok |-> TRUE, cert |-> cert]
BadDER == [ok |-> FALSE, cert |-> NoCert]

\* Byte strings that may hold a PEM block.
EmptyBytes == [kind |-> "empty", type |-> "", der |-> BadDER]
RawBytes   == [kind |-> "raw", type |-> "", der |-> BadDER]
PemBlock(type, der) == [kind |-> "pem", type |-> type, der |-> der]

\* len(b) == 0
IsEmpty(b) == b.kind = "empty"

\* client.go:54-56
pemEncodeCert(contents) == PemBlock("CERTIFICATE", contents)

\* x509.CertPool.AppendCertsFromPEM: the certificates of the data's
\* CERTIFICATE blocks that parse; it reports whether any was added.
AppendCertsFromPEM(data) ==
    IF data.kind = "pem" /\ data.type = "CERTIFICATE" /\ data.der.ok
    THEN {data.der.cert} ELSE {}

\* client.go:193-199: the first PEM block of any type, parsed as a certificate.
certFromPemBlock(data) ==
    IF data.kind # "pem"
    THEN [err |-> "failed to parse certificate PEM", cert |-> NoCert]
    ELSE IF ~data.der.ok
         THEN [err |-> "x509: malformed certificate", cert |-> NoCert]
         ELSE [err |-> Nil, cert |-> data.der.cert]

\* x509.Certificate.Verify with the given roots and no intermediates.
CertVerify(cert, roots) ==
    \E r \in roots : r = cert \/ cert.issuer = r.subject

----------------------------------------------------------------------------
(* Digests, base64 text, signatures *)

Sha256(bytes) == [sha256 |-> bytes]

\* base64.StdEncoding.DecodeString on symbolic text: the empty string
\* decodes to no bytes, text outside the alphabet is an error.
DecodeString(text) ==
    IF text.kind = "notb64"
    THEN [err |-> "illegal base64 data", val |-> text.body]
    ELSE [err |-> Nil, val |-> text.body]

\* base64.StdEncoding.EncodeToString on a sequence of bytes: the sequence
\* of 6-bit digits, 64 standing for the padding character.
RECURSIVE EncodeToString(_)
EncodeToString(b) ==
    IF Len(b) = 0 THEN <<>>
    ELSE IF Len(b) = 1
         THEN << b[1] \div 4, (b[1] % 4) * 16, 64, 64 >>
    ELSE IF Len(b) = 2
         THEN << b[1] \div 4, (b[1] % 4) * 16 + (b[2] \div 16), (b[2] % 16) * 4, 64 >>
    ELSE << b[1] \div 4, (b[1] % 4) * 16 + (b[2] \div 16),
            (b[2] % 16) * 4 + (b[3] \div 64), b[3] % 64 >>
         \o EncodeToString(SubSeq(b, 4, Len(b)))

\* rsa.VerifyPKCS1v15(pub, SHA256, hashed, sig)
VerifyPKCS1v15(pub, hashed, sig) ==
    sig.kind = "sig" /\ sig.signer = pub /\ sig.digest = hashed

----------------------------------------------------------------------------
(* The signed response and its serialization *)

NoSignedResponse == [present |-> FALSE, nonce |-> <<>>, responses |-> <<>>]
SignedResponse(nonce, responses) ==
    [present |-> TRUE, nonce |-> nonce, responses |-> responses]

\* proto.Marshal: fields at their default value are not encoded, so a nil
\* message and an empty one serialize alike.
Marshal(msg) ==
    [nonce     |-> IF msg.present THEN msg.nonce ELSE <<>>,
     responses |-> IF msg.present THEN msg.responses ELSE <<>>]

\* BootstrapDataSigned.GetNonce: a nil message has the empty nonce.
GetNonce(msg) == IF msg.present THEN msg.nonce ELSE <<>>

GetResponses(msg) == IF msg.present THEN msg.responses ELSE <<>>

----------------------------------------------------------------------------
(* The ownership voucher: base64 text of a PKCS#7 message whose content is *)
(* the JSON voucher (client.go:39-51).                                     *)

\* created-on and expires-on are kept as the year they name.
VoucherDated(serial, pdc, created, expires) ==
    [json |-> TRUE, serial |-> serial, pdc |-> pdc,
     created |-> created, expires |-> expires]
Voucher(serial, pdc) == VoucherDated(serial, pdc, 2023, 2099)
NotJSON == [json |-> FALSE, serial |-> "", pdc |-> BadDER,
            created |-> 0, expires |-> 0]

\* A PKCS#7 signedData: the signer's certificate and the digest the signer
\* signed travel with the content.
SignCMS(content, signer) ==
    [ok |-> TRUE, signer |-> signer, signedDigest |-> Sha256(content),
     content |-> content]
NotP7 == [ok |-> FALSE, signer |-> NoCert, signedDigest |-> Sha256(NotJSON),
          content |-> NotJSON]

\* pkcs7.Parse
pkcs7Parse(bytes) ==
    IF bytes.ok THEN [err |-> Nil, p7 |-> bytes]
    ELSE [err |-> "pkcs7: input data is not PKCS7", p7 |-> bytes]

\* json.Unmarshal(p7.Content, &parsedOV)
jsonUnmarshal(content) ==
    IF content.json
    THEN [err |-> Nil, SerialNumber |-> content.serial,
          PinnedDomainCert |-> content.pdc,
          CreatedOn |-> content.created, ExpiresOn |-> content.expires]
    ELSE [err |-> "invalid character", SerialNumber |-> "",
          PinnedDomainCert |-> BadDER, CreatedOn |-> 0, ExpiresOn |-> 0]

\* The signer's signature is checked, its chain to the trust store is not.
VerifyWithChain_NoChain(p7, truststore) ==
    IF p7.signer = NoCert THEN "pkcs7: Message has no signers"
    ELSE IF p7.signedDigest # Sha256(p7.content)
         THEN "pkcs7: Message digest mismatch"
    ELSE Nil

\* pkcs7.PKCS7.VerifyWithChain(truststore)
VerifyWithChain(p7, truststore) ==
    IF p7.signer = NoCert THEN "pkcs7: Message has no signers"
    ELSE IF p7.signedDigest # Sha256(p7.content)
         THEN "pkcs7: Message digest mismatch"
    ELSE IF ~CertVerify(p7.signer, truststore)
         THEN "x509: certificate signed by unknown authority"
    ELSE Nil

----------------------------------------------------------------------------
(* Base64 text fields of the response *)

EmptyOV   == [kind |-> "empty", body |-> NotP7]
NotB64OV  == [kind |-> "notb64", body |-> NotP7]
B64OV(p7) == [kind |-> "b64", body |-> p7]

SigBytes(key, digest) == [kind |-> "sig", signer |-> key, digest |-> digest]
NoSigBytes == [kind |-> "none", signer |-> "", digest |-> Sha256(Marshal(NoSignedResponse))]

EmptySig    == [kind |-> "empty", body |-> NoSigBytes]
NotB64Sig   == [kind |-> "notb64", body |-> NoSigBytes]
B64Sig(sig) == [kind |-> "b64", body |-> sig]

\* The response signature of an honest server: PKCS#1 v1.5 with the given
\* key over the SHA-256 of the serialized signed response.
SignResponse(key, msg) == B64Sig(SigBytes(key, Sha256(Marshal(msg))))

----------------------------------------------------------------------------
(* validateArtifacts, client.go:72-191 *)

\* What validateArtifacts returns, with the checks it ran, in order.
Ret(err, trace) == [err |-> err, trace |-> trace]

\* client.go:169-190: the signature check with the OC's public key.
VerifySignature(ocCert, hashed, decodedSig, trace) ==
    IF ocCert.keyType = "rsa"
    THEN IF VerifyPKCS1v15(ocCert.key, hashed, decodedSig)
         THEN Ret(Nil, trace)
         ELSE Ret("signature not verified", trace)
    ELSE Ret("unsupported public key type", trace)

\* client.go:158-190
ValidateSignature(resp, ocCert, trace) ==
    LET signedResponseBytes == Marshal(resp.signed_response)
        hashed == Sha256(signedResponseBytes)
        dec == DecodeString(resp.response_signature)
    IN  IF dec.err # Nil
        THEN Ret(dec.err, trace \o <<"sig_b64">>)
        ELSE VerifySignature(ocCert, hashed, dec.val,
                             trace \o <<"sig_b64", "sig_verify">>)

\* client.go:130-156.  err is the function's err variable as VerifyWithChain
\* left it: line 137 returns it when the PDC adds no certificate to the pool.
ValidateOC(resp, parsedOV, err, trace) ==
    LET pdCPEM == pemEncodeCert(parsedOV.PinnedDomainCert)
        pdcPool == AppendCertsFromPEM(pdCPEM)
        oc == certFromPemBlock(resp.ownership_certificate)
    IN  IF pdcPool = {}
        THEN Ret(err, trace \o <<"pdc_pool">>)
        ELSE IF oc.err # Nil
        THEN Ret("failed to parse certificate", trace \o <<"pdc_pool", "oc_parse">>)
        ELSE IF ~CertVerify(oc.cert, pdcPool)
        THEN Ret("x509: certificate signed by unknown authority",
                 trace \o <<"pdc_pool", "oc_parse", "oc_chain">>)
        ELSE ValidateSignature(resp, oc.cert,
                               trace \o <<"pdc_pool", "oc_parse", "oc_chain">>)

\* client.go:105-128
ValidateOV(serialNumber, resp, p7, parsedOV, rootCA, trace) ==
    LET vendorCAPool == AppendCertsFromPEM(rootCA)
        err == VerifyWithChain(p7, vendorCAPool)
    IN  IF vendorCAPool = {}
        THEN Ret("unable to add vendor root CA to pool", trace \o <<"ca_pool">>)
        ELSE IF err # Nil
        THEN Ret(err, trace \o <<"ca_pool", "vendor_chain">>)
        ELSE IF parsedOV.SerialNumber # serialNumber
        THEN Ret("serial number from OV does not match request",
                 trace \o <<"ca_pool", "vendor_chain", "serial">>)
        ELSE ValidateOC(resp, parsedOV, err,
                        trace \o <<"ca_pool", "vendor_chain", "serial">>)

\* client.go:72-103
validateArtifacts(serialNumber, resp, rootCA) ==
    LET ov64 == resp.ownership_voucher
        oc == resp.ownership_certificate
        ov == DecodeString(ov64)
        parsed == pkcs7Parse(ov.val)
        parsedOV == jsonUnmarshal(parsed.p7.content)
    IN  IF IsEmpty(ov64)
        THEN Ret("received empty ownership voucher from server", <<"presence">>)
        ELSE IF IsEmpty(oc)
        THEN Ret("received empty ownership certificate from server", <<"presence">>)
        ELSE IF ov.err # Nil
        THEN Ret(ov.err, <<"presence", "ov_b64">>)
        ELSE IF parsed.err # Nil
        THEN Ret(parsed.err, <<"presence", "ov_b64", "ov_pkcs7">>)
        ELSE IF parsedOV.err # Nil
        THEN Ret(parsedOV.err, <<"presence", "ov_b64", "ov_pkcs7", "ov_json">>)
        ELSE ValidateOV(serialNumber, resp, parsed.p7, parsedOV, rootCA,
                        <<"presence", "ov_b64", "ov_pkcs7", "ov_json">>)

----------------------------------------------------------------------------
(* The inputs: flag values, files, random bytes, and what the network may  *)
(* return.                                                                 *)

\* client.go:244-259
chassis ==
    [Manufacturer |-> "Cisco", SerialNumber |-> "123",
     ControlCards |-> << [SerialNumber |-> "123A", Slot |-> 1, PartNumber |-> "123A"],
                         [SerialNumber |-> "123B", Slot |-> 2, PartNumber |-> "123B"] >>]

\* Serial numbers a voucher may carry: the chassis', the active card's, another.
Serials == {"123", "123A", "999"}

\* crypto/rand.Read into a nonceLength buffer: the buffers the modelled
\* source can fill.
RandomOutputs == { [i \in 1..nonceLength |-> b] : b \in 0..MaxByte }

Nonces == { EncodeToString(r) : r \in RandomOutputs }

PDCBodies == {DerOf(PDCCert), DerOf(RoguePDCCert), BadDER}

\* Voucher payloads: any serial and PDC body within their validity, and
\* vouchers that expired in 2022.
Contents ==
    {NotJSON}
    \cup { Voucher(s, p) : s \in Serials, p \in PDCBodies }
    \cup { VoucherDated(s, DerOf(PDCCert), 2020, 2022) : s \in Serials }

\* PKCS#7 messages: well-formed ones by any signer or none, and messages
\* whose content was replaced after the vendor signed it.
P7s ==
    {NotP7}
    \cup { SignCMS(c, s) : c \in Contents, s \in {VendorCACert, RogueCACert, NoCert} }
    \cup { [SignCMS(Voucher("999", DerOf(PDCCert)), VendorCACert)
               EXCEPT !.content = Voucher(s, DerOf(RoguePDCCert))] : s \in Serials }

OVs == {EmptyOV, NotB64OV} \cup { B64OV(p) : p \in P7s }

OCs ==
    {EmptyBytes, RawBytes, PemBlock("CERTIFICATE", BadDER)}
    \cup { PemBlock("CERTIFICATE", DerOf(c)) : c \in {OCCert, OCCertEC, RogueOCCert} }

SignedResponses ==
    {NoSignedResponse}
    \cup { SignedResponse(n, <<"123A", "123B">>) : n \in Nonces \cup {<<>>} }

Signatures ==
    {EmptySig, NotB64Sig, B64Sig(NoSigBytes)}
    \cup { SignResponse(k, m) : k \in {"oc", "oc_ec", "rogueoc"}, m \in SignedResponses }

Response(sr, oc, ov, sig) ==
    [signed_response |-> sr, ownership_certificate |-> oc,
     ownership_voucher |-> ov, response_signature |-> sig]

Responses ==
    { Response(sr, oc, ov, sig) :
        sr \in SignedResponses, oc \in OCs, ov \in OVs, sig \in Signatures }

\* The zero response: what resp holds before the RPC returns.
NoResponse == Response(NoSignedResponse, EmptyBytes, EmptyOV, EmptySig)

\* The file named by -root_ca_cert_path: no path given, an unreadable file,
\* or its bytes.
RootCAFile(given, readable, bytes) ==
    [given |-> given, readable |-> readable, bytes |-> bytes]

RootCABytesSet ==
    {RawBytes, PemBlock("CERTIFICATE", BadDER),
     PemBlock("CERTIFICATE", DerOf(VendorCACert)),
     PemBlock("TRUSTED CERTIFICATE", DerOf(VendorCACert))}

RootCAFiles ==
    {RootCAFile(FALSE, FALSE, EmptyBytes), RootCAFile(TRUE, FALSE, EmptyBytes)}
    \cup { RootCAFile(TRUE, TRUE, b) : b \in RootCABytesSet }

\* A string holding an address is kept as its ":"-separated fields, which is
\* what strings.Split(addr, ":") returns; the empty string has one empty field.
EmptyString == <<"">>
Addresses == {EmptyString, <<"8008">>, <<"10.0.0.1", "8008">>}

\* valResult before validateArtifacts has run.
NotRun == Ret("not run", <<>>)

----------------------------------------------------------------------------
(* The server's artifact directory (server.go:42-121).  File names are     *)
(* sequences of characters, so that prefixes and suffixes are computed.    *)

\* strings.HasPrefix
HasPrefix(str, prefix) ==
    Len(str) >= Len(prefix) /\ SubSeq(str, 1, Len(prefix)) = prefix

\* strings.HasSuffix
HasSuffix(str, suffix) ==
    Len(str) >= Len(suffix)
        /\ SubSeq(str, Len(str) - Len(suffix) + 1, Len(str)) = suffix

\* strings.TrimPrefix
TrimPrefix(str, prefix) ==
    IF HasPrefix(str, prefix) THEN SubSeq(str, Len(prefix) + 1, Len(str)) ELSE str

\* strings.TrimSuffix
TrimSuffix(str, suffix) ==
    IF HasSuffix(str, suffix) THEN SubSeq(str, 1, Len(str) - Len(suffix)) ELSE str

\* fmt.Sprintf("%v_pub.pem", name), fmt.Sprintf("%v_priv.pem", name)
PubName(name)  == name \o <<"_", "p", "u", "b", ".", "p", "e", "m">>
PrivName(name) == name \o <<"_", "p", "r", "i", "v", ".", "p", "e", "m">>

NameOC       == <<"o", "c">>
NamePDC      == <<"p", "d", "c">>
NameVendorCA == <<"v", "e", "n", "d", "o", "r", "c", "a">>

\* Files the directory may hold beside the key pairs.
FileOV1    == <<"o", "v", "_", "1">>
FileOV1Txt == <<"o", "v", "_", "1", ".", "t", "x", "t">>
FileOV2Txt == <<"o", "v", "_", "2", ".", "t", "x", "t">>
FileOVX    == <<"o", "v", "x">>
FileXTxt   == <<"x", ".", "t", "x", "t">>

OtherFiles == {FileOV1, FileOV1Txt, FileOV2Txt, FileOVX, FileXTxt}

KeyFiles ==
    { PubName(n) : n \in {NameOC, NamePDC, NameVendorCA} }
    \cup { PrivName(n) : n \in {NameOC, NamePDC, NameVendorCA} }

\* os.ReadDir returns the entries sorted by file name.
DirOrder ==
    << PrivName(NameOC), PubName(NameOC), FileOV1, FileOV1Txt, FileOV2Txt, FileOVX,
       PrivName(NamePDC), PubName(NamePDC),
       PrivName(NameVendorCA), PubName(NameVendorCA), FileXTxt >>

\* A directory gives each name a state: "absent", "ok" (readable, and for
\* the PDC pair well-formed), "bad" (readable, no key or certificate in it),
\* "unreadable".
FileStates(f) ==
    IF f \in OtherFiles THEN {"absent", "ok", "unreadable"}
    ELSE IF f \in {PubName(NamePDC), PrivName(NamePDC)}
    THEN {"absent", "ok", "bad"}
    ELSE {"absent", "ok"}

PDCFiles == {PubName(NamePDC), PrivName(NamePDC)}

Directories ==
    { [f \in KeyFiles \cup OtherFiles |->
          IF f \in OtherFiles THEN o[f] ELSE IF f \in PDCFiles THEN p[f] ELSE k[f]] :
        o \in [OtherFiles -> FileStates(FileOVX)],
        p \in [PDCFiles -> FileStates(PubName(NamePDC))],
        k \in [KeyFiles \ PDCFiles -> FileStates(PubName(NameOC))] }

EmptyDirectory == [f \in KeyFiles \cup OtherFiles |-> "absent"]

\* os.ReadFile(filepath.Join(*artifactDirectory, name)): the bytes of a file
\* are told apart by the file they come from.
ReadFile(dir, name) ==
    IF dir[name] \in {"ok", "bad"}
    THEN [err |-> Nil, bytes |-> [of |-> name, wellFormed |-> dir[name] = "ok"]]
    ELSE [err |-> "open: no such file or permission denied",
          bytes |-> [of |-> <<>>, wellFormed |-> FALSE]]

NoBytes == [of |-> <<>>, wellFormed |-> FALSE]

\* os.ReadDir(*artifactDirectory)
ReadDir(files) ==
    IF ~files.listable
    THEN [err |-> "unable to list files in artifact directory", names |-> <<>>]
    ELSE [err |-> Nil,
          names |-> SelectSeq(DirOrder, LAMBDA f : files.dir[f] # "absent")]

NoKeyPair == [Cert |-> NoBytes, Key |-> NoBytes]

\* server.go:44-57
readKeypair(files, name) ==
    LET cert == ReadFile(files.dir, PubName(name))
        key == ReadFile(files.dir, PrivName(name))
    IN  IF cert.err # Nil THEN [err |-> "unable to read cert", pair |-> NoKeyPair]
        ELSE IF key.err # Nil THEN [err |-> "unable to read key", pair |-> NoKeyPair]
        ELSE [err |-> Nil, pair |-> [Cert |-> cert.bytes, Key |-> key.bytes]]

\* ovs[trimmed] = string(bytes)
MapPut(map, key, value) ==
    [k \in DOMAIN map \cup {key} |-> IF k = key THEN value ELSE map[k]]

\* server.go:66-76: the loop over the directory's entries.
RECURSIVE readOVsLoop(_, _, _)
readOVsLoop(files, names, ovs) ==
    IF names = <<>> THEN [err |-> Nil, ovs |-> ovs]
    ELSE LET f == Head(names)
             bytes == ReadFile(files.dir, f)
             trimmed == TrimSuffix(TrimPrefix(f, <<"o", "v", "_">>),
                                   <<".", "t", "x", "t">>)
         IN  IF HasPrefix(f, <<"o", "v">>)
             THEN IF bytes.err # Nil
                  THEN [err |-> bytes.err, ovs |-> <<>>]
                  ELSE readOVsLoop(files, Tail(names), MapPut(ovs, trimmed, bytes.bytes))
             ELSE readOVsLoop(files, Tail(names), ovs)

\* An empty set of vouchers is returned as it is.
readOVs_AllowEmpty(files) ==
    LET listing == ReadDir(files)
        loop == readOVsLoop(files, listing.names, <<>>)
    IN  IF listing.err # Nil THEN [err |-> listing.err, ovs |-> <<>>]
        ELSE loop

\* server.go:60-81
readOVs(files) ==
    LET listing == ReadDir(files)
        loop == readOVsLoop(files, listing.names, <<>>)
    IN  IF listing.err # Nil THEN [err |-> listing.err, ovs |-> <<>>]
        ELSE IF loop.err # Nil THEN loop
        ELSE IF DOMAIN loop.ovs = {}
        THEN [err |-> "found no OVs in artifacts directory", ovs |-> <<>>]
        ELSE loop

NoTLSCert == [loaded |-> FALSE, of |-> NoKeyPair]

\* server.go:84-90: tls.X509KeyPair on the PDC's certificate and key.
generateServerTlsCert(pdc) ==
    IF pdc.Cert.wellFormed /\ pdc.Key.wellFormed
    THEN [err |-> Nil, cert |-> [loaded |-> TRUE, of |-> pdc]]
    ELSE [err |-> "unable to generate Server TLS Certificate from PDC",
          cert |-> NoTLSCert]

\* The nil *service.SecurityArtifacts.
NoArtifacts ==
    [OC |-> NoKeyPair, PDC |-> NoKeyPair, VendorCA |-> NoKeyPair, OV |-> <<>>,
     TLSKeypair |-> NoTLSCert]

\* server.go:93-121
parseSecurityArtifacts(files) ==
    LET oc == readKeypair(files, NameOC)
        pdc == readKeypair(files, NamePDC)
        vendorCA == readKeypair(files, NameVendorCA)
        ovs == readOVs(files)
        tlsCert == generateServerTlsCert(pdc.pair)
    IN  IF oc.err # Nil THEN [err |-> oc.err, val |-> NoArtifacts]
        ELSE IF pdc.err # Nil THEN [err |-> pdc.err, val |-> NoArtifacts]
        ELSE IF vendorCA.err # Nil THEN [err |-> vendorCA.err, val |-> NoArtifacts]
        ELSE IF ovs.err # Nil THEN [err |-> ovs.err, val |-> NoArtifacts]
        ELSE IF tlsCert.err # Nil THEN [err |-> tlsCert.err, val |-> NoArtifacts]
        ELSE [err |-> Nil,
              val |-> [OC |-> oc.pair, PDC |-> pdc.pair, VendorCA |-> vendorCA.pair,
                       OV |-> ovs.ovs, TLSKeypair |-> tlsCert.cert]]

\* sa before parseSecurityArtifacts has run.
NotParsed == [err |-> "not run", val |-> NoArtifacts]

----------------------------------------------------------------------------
(* The certificates of the server's second entry point (server.go:211-230) *)

\* A *x509.CertPool, which may be nil.
NilPool == [nil |-> TRUE, certs |-> {}]
Pool(certs) == [nil |-> FALSE, certs |-> certs]

\* The files behind -root_ca_cert_path, -server_cert_path, -server_key_path.
CertFiles(ca, keyPairLoads) == [ca |-> ca, keyPairLoads |-> keyPairLoads]

NoCertFiles == CertFiles(RootCAFile(FALSE, FALSE, EmptyBytes), FALSE)

\* server.go:212-230.  err is what os.ReadFile left in it when line 222
\* returns it.
loadCertificates(rootCaFile, certFile, keyFile, files) ==
    LET err == IF files.ca.readable THEN Nil ELSE "open: no such file"
        trusBundle == AppendCertsFromPEM(files.ca.bytes)
    IN  IF ~rootCaFile \/ ~keyFile \/ ~certFile
        THEN [err |-> "ca file, cert file, and key file need to be set",
              pool |-> NilPool, keyPair |-> FALSE]
        ELSE IF err # Nil
        THEN [err |-> err, pool |-> NilPool, keyPair |-> FALSE]
        ELSE IF trusBundle = {}
        THEN [err |-> err, pool |-> NilPool, keyPair |-> FALSE]
        ELSE IF ~files.keyPairLoads
        THEN [err |-> "tls: failed to find any PEM data", pool |-> NilPool,
              keyPair |-> FALSE]
        ELSE [err |-> Nil, pool |-> Pool(trusBundle), keyPair |-> TRUE]

\* loaded before loadCertificates has run.
NotLoaded == [err |-> "not run", pool |-> NilPool, keyPair |-> FALSE]

\* server.go:33-40 and 232-239
serverConvertAddress(addr) ==
    LET items == addr
    IN  IF Len(items) = 1 THEN <<"localhost">> \o addr ELSE addr

\* The server's flags: -address, whether -artifact_dir is non-empty, and
\* whether each of the second entry point's certificate paths is.
ServerFlags(address, artifactDir, rootCAPath, certPath, keyPath) ==
    [address |-> address, artifactDir |-> artifactDir, rootCA |-> rootCAPath,
     cert |-> certPath, key |-> keyPath]

NoFlags == ServerFlags(EmptyString, FALSE, FALSE, FALSE, FALSE)

\* What the flags name: the artifact directory and the certificate files.
ServerFiles(listable, dir, certs) ==
    [listable |-> listable, dir |-> dir, certs |-> certs]

NoFiles == ServerFiles(FALSE, EmptyDirectory, NoCertFiles)

----------------------------------------------------------------------------
(* State *)

VARIABLES
    pc,            \* where main is
    insecureBoot,  \* -insecure_boot
    rootCA,        \* -root_ca_cert_path and the file behind it
    bootzAddress,  \* -address
    rootCABytes,   \* the bytes read from the root CA file
    nonce,         \* the nonce of the request
    requests,      \* GetBootstrapData requests sent
    gbdReturned,   \* "none", "ok" or "error": how GetBootstrapData returned
    resp,          \* the GetBootstrapDataResponse
    vSerial,       \* the serial number handed to validateArtifacts
    valResult,     \* what validateArtifacts returned
    processed,     \* serial numbers of the records processed
    reports,       \* ReportStatus requests sent
    dialed,        \* the address handed to grpc.Dial, <<>> before
    exitCode,      \* -1 while running, then the process's exit status
    exitAt,        \* the step whose log.Exitf ended the run
    entry,         \* the server main that runs: "artifacts", "dhcp", or "none"
    sPc,           \* where the server's main is
    sFlags,        \* the server's flags
    sFiles,        \* the files the server's flags name
    sa,            \* what parseSecurityArtifacts returned
    loaded,        \* what loadCertificates returned
    registered,    \* the entity manager holds the chassis
    listening,     \* the address handed to net.Listen, <<>> before
    serving,       \* grpc Serve is running
    imageSrv,      \* the image server goroutine: "off", "started", "failed"
    sExitCode,     \* -1 while the server runs, then its exit status
    sExitAt        \* the step whose log.Exitf ended the server

clientVars == << pc, insecureBoot, rootCA, bootzAddress, rootCABytes, nonce, requests,
                 gbdReturned, resp, vSerial, valResult, processed, reports, dialed,
                 exitCode, exitAt >>

serverVars == << entry, sPc, sFlags, sFiles, sa, loaded, registered, listening,
                 serving, imageSrv, sExitCode, sExitAt >>

vars == << clientVars, serverVars >>

\* No server runs.
ServerIdle ==
    /\ entry = "none"
    /\ sPc = "idle"
    /\ sFlags = NoFlags
    /\ sFiles = NoFiles
    /\ sa = NotParsed
    /\ loaded = NotLoaded
    /\ registered = FALSE
    /\ listening = <<>>
    /\ serving = FALSE
    /\ imageSrv = "off"
    /\ sExitCode = -1
    /\ sExitAt = ""

\* No client runs.
ClientIdle ==
    /\ pc = "idle"
    /\ insecureBoot = FALSE
    /\ rootCA = RootCAFile(FALSE, FALSE, EmptyBytes)
    /\ bootzAddress = EmptyString
    /\ rootCABytes = EmptyBytes
    /\ nonce = <<>>
    /\ requests = <<>>
    /\ gbdReturned = "none"
    /\ resp = NoResponse
    /\ vSerial = ""
    /\ valResult = NotRun
    /\ processed = <<>>
    /\ reports = <<>>
    /\ dialed = <<>>
    /\ exitCode = -1
    /\ exitAt = ""

\* client.go:211-213
Init ==
    /\ ServerIdle
    /\ pc = "load_ca"
    /\ insecureBoot \in BOOLEAN
    /\ rootCA \in RootCAFiles
    /\ bootzAddress \in Addresses
    /\ rootCABytes = EmptyBytes
    /\ nonce = <<>>
    /\ requests = <<>>
    /\ gbdReturned = "none"
    /\ resp = NoResponse
    /\ vSerial = ""
    /\ valResult = NotRun
    /\ processed = <<>>
    /\ reports = <<>>
    /\ dialed = <<>>
    /\ exitCode = -1
    /\ exitAt = ""

\* log.Exitf: the process ends with status 1.
Exit(at) ==
    /\ pc' = "done"
    /\ exitCode' = 1
    /\ exitAt' = at

Continue(to) ==
    /\ pc' = to
    /\ UNCHANGED << exitCode, exitAt >>

----------------------------------------------------------------------------
(* main, client.go:211-384 *)

\* client.go:58-66
convertAddress(addr) ==
    LET items == addr
    IN  IF Len(items) = 1 THEN <<"localhost">> \o addr ELSE addr

\* client.go:291
activeControlCard == chassis.ControlCards[1]

\* client.go:308-316
BuildRequest(n) ==
    [ChassisDescriptor |-> chassis,
     ControlCardState  |-> [SerialNumber |-> activeControlCard.SerialNumber,
                            Status |-> "NOT_INITIALIZED"],
     Nonce |-> n]

\* The first card is reported twice, the second not at all.
statusReq_Duplicate ==
    [Status |-> "BOOTSTRAP_STATUS_SUCCESS",
     StatusMessage |-> "Bootstrap Success",
     States |-> << [Status |-> "INITIALIZED",
                    SerialNumber |-> chassis.ControlCards[1].SerialNumber],
                   [Status |-> "INITIALIZED",
                    SerialNumber |-> chassis.ControlCards[1].SerialNumber] >>]

\* client.go:363-376
statusReq ==
    [Status |-> "BOOTSTRAP_STATUS_SUCCESS",
     StatusMessage |-> "Bootstrap Success",
     States |-> << [Status |-> "INITIALIZED",
                    SerialNumber |-> chassis.ControlCards[1].SerialNumber],
                   [Status |-> "INITIALIZED",
                    SerialNumber |-> chassis.ControlCards[2].SerialNumber] >>]

ValidationRequired_Always == TRUE

\* client.go:330: the artifacts are checked unless -insecure_boot is set.
ValidationRequired == ~insecureBoot

\* client.go:340
NonceMismatch_IgnoreEmpty(signedResp) ==
    ~insecureBoot /\ GetNonce(signedResp) # <<>> /\ GetNonce(signedResp) # nonce

NonceMismatch(signedResp) ==
    ~insecureBoot /\ GetNonce(signedResp) # nonce

\* The bytes read are not parsed before the run goes on.
LoadRootCA_NoParseCheck ==
    /\ pc = "load_ca"
    /\ IF ~rootCA.given
       THEN Exit("load_ca") /\ UNCHANGED rootCABytes
       ELSE IF ~rootCA.readable
       THEN Exit("load_ca") /\ UNCHANGED rootCABytes
       ELSE /\ rootCABytes' = rootCA.bytes
            /\ Continue("dial")
    /\ UNCHANGED serverVars
    /\ UNCHANGED << insecureBoot, rootCA, bootzAddress, nonce, requests, gbdReturned,
                    resp, vSerial, valResult, processed, reports, dialed >>

\* client.go:221-237
LoadRootCA ==
    /\ pc = "load_ca"
    /\ IF ~rootCA.given
       THEN Exit("load_ca") /\ UNCHANGED rootCABytes
       ELSE IF ~rootCA.readable
       THEN Exit("load_ca") /\ UNCHANGED rootCABytes
       ELSE /\ rootCABytes' = rootCA.bytes
            /\ IF certFromPemBlock(rootCA.bytes).err # Nil
               THEN Exit("load_ca")
               ELSE Continue("dial")
    /\ UNCHANGED serverVars
    /\ UNCHANGED << insecureBoot, rootCA, bootzAddress, nonce, requests, gbdReturned,
                    resp, vSerial, valResult, processed, reports, dialed >>

\* client.go:269-285
Dial ==
    /\ pc = "dial"
    /\ IF bootzAddress = EmptyString
       THEN Exit("dial") /\ UNCHANGED dialed
       ELSE /\ dialed' = <<"localhost">> \o convertAddress(bootzAddress)
            /\ \E ok \in BOOLEAN :
                 IF ok THEN Continue("nonce") ELSE Exit("dial")
    /\ UNCHANGED serverVars
    /\ UNCHANGED << insecureBoot, rootCA, bootzAddress, rootCABytes, nonce, requests,
                    gbdReturned, resp, vSerial, valResult, processed, reports >>

\* The error of the random source is dropped: the run goes on with the
\* empty nonce generateNonce returned with it.
GenerateNonce_IgnoreError ==
    /\ pc = "nonce"
    /\ IF ~insecureBoot
       THEN \/ \E b \in RandomOutputs : nonce' = EncodeToString(b)
            \/ nonce' = <<>>
       ELSE nonce' = <<>>
    /\ Continue("get_bootstrap")
    /\ UNCHANGED serverVars
    /\ UNCHANGED << insecureBoot, rootCA, bootzAddress, rootCABytes, requests,
                    gbdReturned, resp, vSerial, valResult, processed, reports, dialed >>

\* client.go:293-302 and 201-209
GenerateNonce ==
    /\ pc = "nonce"
    /\ IF ~insecureBoot
       THEN \/ \E b \in RandomOutputs :
                 /\ nonce' = EncodeToString(b)
                 /\ Continue("get_bootstrap")
            \/ /\ nonce' = <<>>
               /\ Exit("nonce")
       ELSE /\ nonce' = <<>>
            /\ Continue("get_bootstrap")
    /\ UNCHANGED serverVars
    /\ UNCHANGED << insecureBoot, rootCA, bootzAddress, rootCABytes, requests,
                    gbdReturned, resp, vSerial, valResult, processed, reports, dialed >>

\* The RPC's error is logged and the run goes on with the zero response.
GetBootstrapData_IgnoreError ==
    /\ pc = "get_bootstrap"
    /\ requests' = Append(requests, BuildRequest(nonce))
    /\ \/ \E r \in Responses :
            /\ resp' = r
            /\ gbdReturned' = "ok"
       \/ /\ gbdReturned' = "error"
          /\ UNCHANGED resp
    /\ Continue("validate")
    /\ UNCHANGED serverVars
    /\ UNCHANGED << insecureBoot, rootCA, bootzAddress, rootCABytes, nonce,
                    vSerial, valResult, processed, reports, dialed >>

\* client.go:308-327
GetBootstrapData ==
    /\ pc = "get_bootstrap"
    /\ requests' = Append(requests, BuildRequest(nonce))
    /\ \/ \E r \in Responses :
            /\ resp' = r
            /\ gbdReturned' = "ok"
            /\ Continue("validate")
       \/ /\ gbdReturned' = "error"
          /\ Exit("get_bootstrap")
          /\ UNCHANGED resp
    /\ UNCHANGED serverVars
    /\ UNCHANGED << insecureBoot, rootCA, bootzAddress, rootCABytes, nonce,
                    vSerial, valResult, processed, reports, dialed >>

\* client.go:330-337
Validate ==
    /\ pc = "validate"
    /\ IF ValidationRequired
       THEN /\ vSerial' = activeControlCard.SerialNumber
            /\ valResult' = validateArtifacts(vSerial', resp, rootCABytes)
            /\ IF valResult'.err # Nil
               THEN Exit("validate")
               ELSE Continue("check_nonce")
       ELSE /\ Continue("check_nonce")
            /\ UNCHANGED << vSerial, valResult >>
    /\ UNCHANGED serverVars
    /\ UNCHANGED << insecureBoot, rootCA, bootzAddress, rootCABytes, nonce, requests,
                    gbdReturned, resp, processed, reports, dialed >>

\* client.go:339-342
CheckNonce ==
    /\ pc = "check_nonce"
    /\ IF NonceMismatch(resp.signed_response)
       THEN Exit("check_nonce")
       ELSE Continue("process")
    /\ UNCHANGED serverVars
    /\ UNCHANGED << insecureBoot, rootCA, bootzAddress, rootCABytes, nonce, requests,
                    gbdReturned, resp, vSerial, valResult, processed, reports, dialed >>

\* client.go:349-358
ProcessRecords ==
    /\ pc = "process"
    /\ processed' = GetResponses(resp.signed_response)
    /\ Continue("report")
    /\ UNCHANGED serverVars
    /\ UNCHANGED << insecureBoot, rootCA, bootzAddress, rootCABytes, nonce, requests,
                    gbdReturned, resp, vSerial, valResult, reports, dialed >>

\* client.go:363-384
ReportStatus ==
    /\ pc = "report"
    /\ reports' = Append(reports, statusReq)
    /\ \/ /\ pc' = "done"
          /\ exitCode' = 0
          /\ UNCHANGED exitAt
       \/ Exit("report")
    /\ UNCHANGED serverVars
    /\ UNCHANGED << insecureBoot, rootCA, bootzAddress, rootCABytes, nonce, requests,
                    gbdReturned, resp, vSerial, valResult, processed, dialed >>

Next ==
    \/ LoadRootCA
    \/ Dial
    \/ GenerateNonce
    \/ GetBootstrapData
    \/ Validate
    \/ CheckNonce
    \/ ProcessRecords
    \/ ReportStatus

Spec == Init /\ [][Next]_vars

----------------------------------------------------------------------------
(* validateArtifacts on its own: any serial number, response and root CA   *)
(* bytes.                                                                  *)

InitValidate ==
    /\ ServerIdle
    /\ pc = "call"
    /\ insecureBoot = FALSE
    /\ rootCA \in { RootCAFile(TRUE, TRUE, b) : b \in RootCABytesSet }
    /\ bootzAddress = EmptyString
    /\ rootCABytes = rootCA.bytes
    /\ nonce = <<>>
    /\ requests = <<>>
    /\ gbdReturned = "none"
    /\ resp \in Responses
    /\ vSerial \in Serials
    /\ valResult = NotRun
    /\ processed = <<>>
    /\ reports = <<>>
    /\ dialed = <<>>
    /\ exitCode = -1
    /\ exitAt = ""

CallValidateArtifacts ==
    /\ pc = "call"
    /\ valResult' = validateArtifacts(vSerial, resp, rootCABytes)
    /\ pc' = "returned"
    /\ UNCHANGED serverVars
    /\ UNCHANGED << insecureBoot, rootCA, bootzAddress, rootCABytes, nonce, requests,
                    gbdReturned, resp, vSerial, processed, reports, dialed,
                    exitCode, exitAt >>

NextValidate == CallValidateArtifacts

SpecValidate == InitValidate /\ [][NextValidate]_vars

----------------------------------------------------------------------------
(* The server's entry points: main of server.go:123-170, which loads the   *)
(* security artifacts, and main of server.go:241-299, which loads the      *)
(* certificates and starts the DHCP and image servers.                     *)

\* log.Exitf, log.Exit
SExit(at) ==
    /\ sPc' = "done"
    /\ sExitCode' = 1
    /\ sExitAt' = at

SContinue(to) ==
    /\ sPc' = to
    /\ UNCHANGED << sExitCode, sExitAt >>

InitServer ==
    /\ ClientIdle
    /\ entry \in {"artifacts", "dhcp"}
    /\ sPc = "s_start"
    /\ \E a \in Addresses :
         IF entry = "artifacts"
         THEN \/ /\ sFlags = ServerFlags(a, FALSE, FALSE, FALSE, FALSE)
                 /\ sFiles = NoFiles
              \/ /\ sFlags = ServerFlags(a, TRUE, FALSE, FALSE, FALSE)
                 /\ \E l \in BOOLEAN, d \in Directories :
                      sFiles = ServerFiles(l, d, NoCertFiles)
         ELSE /\ \E r \in BOOLEAN, c \in BOOLEAN, k \in BOOLEAN :
                   sFlags = ServerFlags(a, FALSE, r, c, k)
              /\ \E ca \in RootCAFiles, kp \in BOOLEAN :
                   /\ ca.given = sFlags.rootCA
                   /\ sFiles = ServerFiles(FALSE, EmptyDirectory, CertFiles(ca, kp))
    /\ sa = NotParsed
    /\ loaded = NotLoaded
    /\ registered = FALSE
    /\ listening = <<>>
    /\ serving = FALSE
    /\ imageSrv = "off"
    /\ sExitCode = -1
    /\ sExitAt = ""

\* server.go:130-135
ServerCheckFlags ==
    /\ entry = "artifacts"
    /\ sPc = "s_start"
    /\ IF sFlags.address = EmptyString THEN SExit("flags")
       ELSE IF ~sFlags.artifactDir THEN SExit("flags")
       ELSE SContinue("s_parse")
    /\ UNCHANGED << entry, sFlags, sFiles, sa, loaded, registered, listening,
                    serving, imageSrv >>
    /\ UNCHANGED clientVars

\* server.go:137-141
ServerParseArtifacts ==
    /\ entry = "artifacts"
    /\ sPc = "s_parse"
    /\ sa' = parseSecurityArtifacts(sFiles)
    /\ IF sa'.err # Nil THEN SExit("parse") ELSE SContinue("s_setup")
    /\ UNCHANGED << entry, sFlags, sFiles, loaded, registered, listening,
                    serving, imageSrv >>
    /\ UNCHANGED clientVars

\* server.go:143-157
ServerSetup ==
    /\ entry = "artifacts"
    /\ sPc = "s_setup"
    /\ registered' = TRUE
    /\ IF ~sa.val.PDC.Cert.wellFormed THEN SExit("trust") ELSE SContinue("s_listen")
    /\ UNCHANGED << entry, sFlags, sFiles, sa, loaded, listening, serving, imageSrv >>
    /\ UNCHANGED clientVars

\* server.go:159-163
ServerListen ==
    /\ entry = "artifacts"
    /\ sPc = "s_listen"
    /\ listening' = serverConvertAddress(sFlags.address)
    /\ \E ok \in BOOLEAN : IF ok THEN SContinue("s_serve") ELSE SExit("listen")
    /\ UNCHANGED << entry, sFlags, sFiles, sa, loaded, registered, serving, imageSrv >>
    /\ UNCHANGED clientVars

\* server.go:165-166: Serve blocks while the server serves.
ServerServe ==
    /\ entry = "artifacts"
    /\ sPc = "s_serve"
    /\ serving' = TRUE
    /\ SContinue("s_serving")
    /\ UNCHANGED << entry, sFlags, sFiles, sa, loaded, registered, listening, imageSrv >>
    /\ UNCHANGED clientVars

\* server.go:166-169 and 295-298: Serve returns an error.
ServeFails ==
    /\ sPc = "s_serving"
    /\ serving' = FALSE
    /\ SExit("serve")
    /\ UNCHANGED << entry, sFlags, sFiles, sa, loaded, registered, listening, imageSrv >>
    /\ UNCHANGED clientVars

\* server.go:244-248
Server2NewEntityManager ==
    /\ entry = "dhcp"
    /\ sPc = "s_start"
    /\ \E ok \in BOOLEAN :
         IF ok THEN registered' = TRUE /\ SContinue("s2_certs")
         ELSE UNCHANGED registered /\ SExit("entities")
    /\ UNCHANGED << entry, sFlags, sFiles, sa, loaded, listening, serving, imageSrv >>
    /\ UNCHANGED clientVars

\* server.go:250-262
Server2LoadCertificates ==
    /\ entry = "dhcp"
    /\ sPc = "s2_certs"
    /\ IF ~sFlags.rootCA \/ ~sFlags.cert \/ ~sFlags.key
       THEN SExit("flags") /\ UNCHANGED loaded
       ELSE /\ loaded' = loadCertificates(sFlags.rootCA, sFlags.cert, sFlags.key,
                                          sFiles.certs)
            /\ IF loaded'.err # Nil THEN SExit("certs") ELSE SContinue("s2_dhcp")
    /\ UNCHANGED << entry, sFlags, sFiles, sa, registered, listening, serving, imageSrv >>
    /\ UNCHANGED clientVars

\* server.go:264-273
Server2StartDHCP ==
    /\ entry = "dhcp"
    /\ sPc = "s2_dhcp"
    /\ \E ok \in BOOLEAN : IF ok THEN SContinue("s2_image") ELSE SExit("dhcp")
    /\ UNCHANGED << entry, sFlags, sFiles, sa, loaded, registered, listening,
                    serving, imageSrv >>
    /\ UNCHANGED clientVars

\* server.go:275-284: the goroutine of the image server is started.
Server2StartImageServer ==
    /\ entry = "dhcp"
    /\ sPc = "s2_image"
    /\ imageSrv' = "started"
    /\ SContinue("s_listen")
    /\ UNCHANGED << entry, sFlags, sFiles, sa, loaded, registered, listening, serving >>
    /\ UNCHANGED clientVars

\* server.go:281-283: ListenAndServeTLS returns and log.Fatalf ends the process.
ImageServerFails ==
    /\ entry = "dhcp"
    /\ imageSrv = "started"
    /\ sPc # "done"
    /\ imageSrv' = "failed"
    /\ serving' = FALSE
    /\ sPc' = "done"
    /\ sExitCode' = 255
    /\ sExitAt' = "image"
    /\ UNCHANGED << entry, sFlags, sFiles, sa, loaded, registered, listening >>
    /\ UNCHANGED clientVars

\* server.go:286-293
Server2Listen ==
    /\ entry = "dhcp"
    /\ sPc = "s_listen"
    /\ listening' = serverConvertAddress(sFlags.address)
    /\ \E ok \in BOOLEAN : IF ok THEN SContinue("s_serve") ELSE SExit("listen")
    /\ UNCHANGED << entry, sFlags, sFiles, sa, loaded, registered, serving, imageSrv >>
    /\ UNCHANGED clientVars

\* server.go:294-295
Server2Serve ==
    /\ entry = "dhcp"
    /\ sPc = "s_serve"
    /\ serving' = TRUE
    /\ SContinue("s_serving")
    /\ UNCHANGED << entry, sFlags, sFiles, sa, loaded, registered, listening, imageSrv >>
    /\ UNCHANGED clientVars

NextServer ==
    \/ ServerCheckFlags
    \/ ServerParseArtifacts
    \/ ServerSetup
    \/ ServerListen
    \/ ServerServe
    \/ ServeFails
    \/ Server2NewEntityManager
    \/ Server2LoadCertificates
    \/ Server2StartDHCP
    \/ Server2StartImageServer
    \/ ImageServerFails
    \/ Server2Listen
    \/ Server2Serve

SpecServer == InitServer /\ [][NextServer]_vars

----------------------------------------------------------------------------
(* Properties of validateArtifacts, checked under SpecValidate *)

\* validateArtifacts has returned.
Returned == valResult # NotRun

Accepted == Returned /\ valResult.err = Nil

\* The parts of the response the properties speak of.
OVText    == resp.ownership_voucher
OVMessage == OVText.body
OVContent == OVMessage.content
OCBytes   == resp.ownership_certificate
SigText   == resp.response_signature

\* The OC is a certificate that chains to the voucher's pinned domain cert.
OCChainsToPDC ==
    /\ OCBytes.kind = "pem"
    /\ OCBytes.der.ok
    /\ OVContent.pdc.ok
    /\ \/ OCBytes.der.cert = OVContent.pdc.cert
       \/ OCBytes.der.cert.issuer = OVContent.pdc.cert.subject

\* The signature is base64 of an RSA signature by the OC's key over the
\* SHA-256 of the serialized signed response.
SignatureVerifies ==
    /\ SigText.kind = "b64"
    /\ SigText.body.kind = "sig"
    /\ OCBytes.der.cert.keyType = "rsa"
    /\ SigText.body.signer = OCBytes.der.cert.key
    /\ SigText.body.digest = Sha256(Marshal(resp.signed_response))

\* The voucher decodes, parses, and its signer signed this content and is
\* the vendor CA in rootCABytes or was issued by it.
OVSignedByVendor ==
    /\ OVText.kind = "b64"
    /\ OVMessage.ok
    /\ OVMessage.signer # NoCert
    /\ OVMessage.signedDigest = Sha256(OVContent)
    /\ rootCABytes.kind = "pem" /\ rootCABytes.type = "CERTIFICATE"
    /\ rootCABytes.der.ok
    /\ \/ OVMessage.signer = rootCABytes.der.cert
       \/ OVMessage.signer.issuer = rootCABytes.der.cert.subject

\* C1: whenever validateArtifacts returns nil, the OC chains to the pinned
\* domain cert of the response's voucher; a response whose OC does not
\* (an unparsable PDC included) gets an error.
C1_AcceptedOCChainsToPDC == Accepted => OCChainsToPDC

\* C2: whenever validateArtifacts returns nil, the response signature
\* verifies with the OC's RSA key over the SHA-256 of the serialized signed
\* response; on every path a signature that does not verify gets an error.
C2_AcceptedSignatureVerifies == Accepted => SignatureVerifies

\* C3: whenever validateArtifacts returns nil, the voucher was base64
\* decoded, parsed as PKCS#7 and its signer verified against the pool that
\* holds only the vendor CA passed in; any other voucher gets an error.
C3_AcceptedOVSignedByVendor == Accepted => OVSignedByVendor

C3_Witness ==
    /\ pc = "returned"
    /\ Accepted
    /\ OVMessage.signer = VendorCACert
    /\ OCChainsToPDC
    /\ SignatureVerifies

----------------------------------------------------------------------------
(* Properties of the client run, checked under Spec *)

SignedResp == resp.signed_response

\* The run has got past the nonce check.
PastNonceCheck == pc \in {"process", "report"} \/ reports # <<>>

\* C4: in secure mode a response is accepted only if the voucher's serial
\* number equals the chassis serial number of the chassis descriptor sent in
\* the request.
C4_AcceptedSerialIsChassisSerial ==
    (~insecureBoot /\ Accepted) =>
        OVContent.serial = requests[1].ChassisDescriptor.SerialNumber

\* C5: in secure mode the records are processed and ReportStatus is sent
\* only if the signed response's nonce is the request's; with any other nonce
\* the run ends with a nonzero status and no ReportStatus.
C5_NonceEchoed ==
    ~insecureBoot =>
        /\ PastNonceCheck => GetNonce(SignedResp) = requests[1].Nonce
        /\ (pc = "done" /\ gbdReturned = "ok"
                /\ GetNonce(SignedResp) # requests[1].Nonce) =>
              (exitCode = 1 /\ reports = <<>> /\ processed = <<>>)

\* A stale nonce under a valid signature, refused at the nonce check.
C5_Witness ==
    /\ ~insecureBoot
    /\ pc = "done"
    /\ exitAt = "check_nonce"
    /\ Accepted
    /\ SignatureVerifies
    /\ GetNonce(SignedResp) \in Nonces
    /\ GetNonce(SignedResp) # nonce
    /\ exitCode = 1

\* The untampered response of the happy path: the voucher for the chassis
\* serial signed by the vendor CA, the OC issued by the voucher's PDC, the
\* signature by the OC's key over the signed response, the nonce echoed.
HonestResponse ==
    LET sr == SignedResponse(requests[1].Nonce, <<"123A", "123B">>)
    IN  /\ gbdReturned = "ok"
        /\ requests[1].ChassisDescriptor.Manufacturer = "Cisco"
        /\ requests[1].ChassisDescriptor.SerialNumber = "123"
        /\ requests[1].ControlCardState.SerialNumber = "123A"
        /\ rootCABytes = PemBlock("CERTIFICATE", DerOf(VendorCACert))
        /\ resp = Response(sr,
                           PemBlock("CERTIFICATE", DerOf(OCCert)),
                           B64OV(SignCMS(Voucher("123", DerOf(PDCCert)), VendorCACert)),
                           SignResponse(OCCert.key, sr))

\* C6: in secure mode an untampered response for chassis ("Cisco", "123")
\* with active card "123A" validates, and the run ends having sent
\* ReportStatus with INITIALIZED for both control cards.
C6_HappyPathAccepted ==
    (~insecureBoot /\ pc = "done" /\ HonestResponse) =>
        /\ Accepted
        /\ Len(reports) = 1
        /\ \A i \in 1..Len(chassis.ControlCards) :
              reports[1].States[i] =
                  [Status |-> "INITIALIZED",
                   SerialNumber |-> chassis.ControlCards[i].SerialNumber]
        /\ exitAt \in {"", "report"}

----------------------------------------------------------------------------
(* The order of the checks of validateArtifacts, under SpecValidate *)

MissingArtifactErrors ==
    {"received empty ownership voucher from server",
     "received empty ownership certificate from server",
     "received empty response signature from server"}

\* C7: the first check of validateArtifacts refuses, before anything is
\* decoded, a response whose voucher, certificate or signature is empty,
\* with a missing-artifact error.
C7_PresenceFirst ==
    (Returned /\ (IsEmpty(OVText) \/ IsEmpty(OCBytes) \/ IsEmpty(SigText))) =>
        /\ valResult.err \in MissingArtifactErrors
        /\ valResult.trace = <<"presence">>

\* The first of the seven steps (presence, OV decode, OV payload parse,
\* vendor chain, serial binding, OC chain, signature) that the inputs fail,
\* 0 if they pass all.
EarliestFailing ==
    IF IsEmpty(OVText) \/ IsEmpty(OCBytes) \/ IsEmpty(SigText) THEN 1
    ELSE IF OVText.kind # "b64" \/ ~OVMessage.ok THEN 2
    ELSE IF ~OVContent.json THEN 3
    ELSE IF ~OVSignedByVendor THEN 4
    ELSE IF OVContent.serial # vSerial THEN 5
    ELSE IF ~OCChainsToPDC THEN 6
    ELSE IF ~SignatureVerifies THEN 7
    ELSE 0

\* The step the last check that ran belongs to.
StepOf(check) ==
    CASE check = "presence" -> 1
      [] check \in {"ov_b64", "ov_pkcs7"} -> 2
      [] check = "ov_json" -> 3
      [] check \in {"ca_pool", "vendor_chain"} -> 4
      [] check = "serial" -> 5
      [] check \in {"pdc_pool", "oc_parse", "oc_chain"} -> 6
      [] check \in {"sig_b64", "sig_verify"} -> 7

StoppedAt == StepOf(valResult.trace[Len(valResult.trace)])

\* C8: validateArtifacts stops at the first failing step of the fixed order
\* and returns that step's error; it returns nil only if every step passed.
C8_FirstFailureReturned ==
    Returned =>
        IF EarliestFailing = 0
        THEN valResult.err = Nil /\ StoppedAt = 7
        ELSE valResult.err # Nil /\ StoppedAt = EarliestFailing

----------------------------------------------------------------------------
(* Insecure mode and the order of the run, under Spec *)

\* C9: with -insecure_boot no validation check runs and the nonce is not
\* compared: after any response of a successful GetBootstrapData the records
\* are processed and ReportStatus is sent.
C9_InsecureSkipsChecks ==
    insecureBoot =>
        /\ valResult = NotRun
        /\ exitAt \notin {"validate", "check_nonce"}
        /\ (pc = "done" /\ gbdReturned = "ok") =>
              (processed = GetResponses(SignedResp) /\ reports = <<statusReq>>)

\* Insecure mode, a response with no OV, OC or signature and an empty nonce.
C9_Witness ==
    /\ insecureBoot
    /\ pc = "done"
    /\ gbdReturned = "ok"
    /\ IsEmpty(OVText) /\ IsEmpty(OCBytes) /\ IsEmpty(SigText)
    /\ reports = <<statusReq>>
    /\ exitCode = 0

\* C10: one GetBootstrapData call, then validation and the nonce check, then
\* at most one ReportStatus; ReportStatus only after GetBootstrapData
\* returned successfully, and none after an RPC error or a validation failure,
\* which end the run with a nonzero status.
C10_Sequential ==
    /\ Len(requests) <= 1
    /\ Len(reports) <= 1
    /\ (gbdReturned # "none") <=> (Len(requests) = 1)
    /\ Returned => gbdReturned = "ok"
    /\ pc \in {"check_nonce", "process", "report"} =>
          (gbdReturned = "ok" /\ (~insecureBoot => Accepted))
    /\ reports # <<>> =>
          /\ gbdReturned = "ok"
          /\ ~insecureBoot => (Accepted /\ GetNonce(SignedResp) = nonce)
    /\ (pc = "done" /\ (gbdReturned = "error" \/ (Returned /\ ~Accepted))) =>
          (exitCode = 1 /\ reports = <<>>)
    /\ exitAt # "" => (pc = "done" /\ exitCode = 1)

\* A secure run that made both calls, in order, and ended with status 0.
C10_Witness ==
    /\ ~insecureBoot
    /\ pc = "done"
    /\ exitCode = 0
    /\ Len(requests) = 1
    /\ Accepted
    /\ reports = <<statusReq>>

----------------------------------------------------------------------------
(* Key type and validity window of the artifacts *)

OCIsNonRSA ==
    /\ OCBytes.kind = "pem"
    /\ OCBytes.der.ok
    /\ OCBytes.der.cert.keyType # "rsa"

\* C15 (under SpecValidate): an ownership certificate whose public key is
\* not RSA is never accepted, and when the checks before the key's use pass
\* it is refused with the unsupported-key error, whatever the signature is.
C15_NonRSARefused ==
    (Returned /\ OCIsNonRSA) =>
        /\ ~Accepted
        /\ (OVSignedByVendor /\ OVContent.serial = vSerial /\ OCChainsToPDC
                /\ SigText.kind # "notb64") =>
              valResult.err = "unsupported public key type"

\* The years in which the client may be run.
ValidationTimes == 2023..2026

\* C16 (under Spec): a secure-mode client never accepts a response whose
\* voucher is outside its validity window: expires-on is in the future and
\* created-on is not.
C16_AcceptedVoucherNotExpired ==
    (~insecureBoot /\ Accepted) =>
        \A now \in ValidationTimes :
            OVContent.created <= now /\ now < OVContent.expires

----------------------------------------------------------------------------
(* The requests the client builds, under Spec *)

\* base64 decoding of a sequence of digits as EncodeToString writes them.
RECURSIVE DecodeDigits(_)
DecodeDigits(d) ==
    IF Len(d) < 4 THEN <<>>
    ELSE LET b1 == d[1] * 4 + (d[2] \div 16)
             b2 == (d[2] % 16) * 16 + (d[3] \div 4)
             b3 == (d[3] % 4) * 64 + d[4]
         IN  IF d[3] = 64 THEN <<b1>>
             ELSE IF d[4] = 64 THEN <<b1, b2>>
             ELSE <<b1, b2, b3>> \o DecodeDigits(SubSeq(d, 5, Len(d)))

\* C17: the request's nonce is empty iff -insecure_boot is set; in secure
\* mode it is the base64 encoding of exactly nonceLength bytes of the random
\* source, generated before the request is built; if the random source fails
\* the run ends and no request is sent.
C17_RequestNonce ==
    /\ requests # <<>> =>
          /\ (requests[1].Nonce = <<>>) <=> insecureBoot
          /\ requests[1].Nonce = nonce
          /\ ~insecureBoot =>
                /\ Len(DecodeDigits(requests[1].Nonce)) = nonceLength
                /\ DecodeDigits(requests[1].Nonce) \in RandomOutputs
                /\ Len(requests[1].Nonce) = 4 * ((nonceLength + 2) \div 3)
    /\ exitAt = "nonce" =>
          (~insecureBoot /\ requests = <<>> /\ reports = <<>> /\ exitCode = 1)

\* A secure run whose request went out with a nonce of 16 random bytes.
C17_Witness ==
    /\ ~insecureBoot
    /\ Len(requests) = 1
    /\ DecodeDigits(requests[1].Nonce) = [i \in 1..nonceLength |-> MaxByte]

SerialsOf(cards) == { cards[i].SerialNumber : i \in 1..Len(cards) }

\* C18: the GetBootstrapData request carries the state of the active control
\* card only, a card of the chassis descriptor, as NOT_INITIALIZED; the
\* ReportStatus request carries exactly one state for each control card of
\* the chassis descriptor.
C18_CardStates ==
    /\ requests # <<>> =>
          LET req == requests[1]
          IN  /\ req.ControlCardState.SerialNumber
                    \in SerialsOf(req.ChassisDescriptor.ControlCards)
              /\ req.ControlCardState.SerialNumber
                    = req.ChassisDescriptor.ControlCards[1].SerialNumber
              /\ req.ControlCardState.Status = "NOT_INITIALIZED"
    /\ reports # <<>> =>
          LET states == reports[1].States
              cards == requests[1].ChassisDescriptor.ControlCards
          IN  /\ Len(states) = Len(cards)
              /\ \A i \in 1..Len(cards) :
                    Cardinality({ j \in 1..Len(states) :
                        states[j].SerialNumber = cards[i].SerialNumber }) = 1
              /\ \A j \in 1..Len(states) :
                    states[j].SerialNumber \in SerialsOf(cards)

C18_Witness ==
    /\ Len(requests) = 1
    /\ Len(reports) = 1
    /\ Len(reports[1].States) = 2
    /\ requests[1].ControlCardState.SerialNumber = "123A"

\* The root CA file was read and its bytes parsed as a certificate.
RootCAParsed ==
    /\ rootCA.given
    /\ rootCA.readable
    /\ rootCA.bytes.kind = "pem"
    /\ rootCA.bytes.der.ok

\* C20: the client dials and sends RPCs only after the root CA file was read
\* and parsed as an X.509 certificate; with no path, an unreadable file or an
\* unparsable certificate the run ends nonzero before any network action, in
\* secure and insecure mode alike.
C20_RootCAFirst ==
    /\ (dialed # <<>> \/ requests # <<>> \/ reports # <<>>) =>
          (RootCAParsed /\ rootCABytes = rootCA.bytes)
    /\ ~RootCAParsed => pc \in {"load_ca", "done"}
    /\ (~RootCAParsed /\ pc = "done") =>
          (exitCode = 1 /\ exitAt = "load_ca" /\ dialed = <<>>)

\* An insecure run ended by a root CA whose PEM block holds no certificate.
C20_Witness ==
    /\ insecureBoot
    /\ pc = "done"
    /\ rootCA.bytes = PemBlock("CERTIFICATE", BadDER)
    /\ exitAt = "load_ca"
    /\ dialed = <<>>


----------------------------------------------------------------------------
(* The server's startup, under SpecServer *)

\* parseSecurityArtifacts has returned.
Parsed == entry = "artifacts" /\ sa # NotParsed

\* The names present in the artifact directory.
Present == { f \in KeyFiles \cup OtherFiles : sFiles.dir[f] # "absent" }

\* The file names of the form ov_<serial>.txt, and the serial of one.
IsOVName(f) ==
    /\ HasPrefix(f, <<"o", "v", "_">>)
    /\ HasSuffix(f, <<".", "t", "x", "t">>)
    /\ Len(f) > 7

SerialOfOVName(f) == SubSeq(f, 4, Len(f) - 4)

\* Some artifact cannot be loaded: a keypair file is missing, the PDC pair is
\* not a certificate and its key, the directory cannot be listed, a voucher
\* file cannot be read, or no file of the directory is a voucher.
SomeArtifactFails ==
    \/ \E f \in KeyFiles : sFiles.dir[f] \notin {"ok", "bad"}
    \/ \E f \in PDCFiles : sFiles.dir[f] # "ok"
    \/ ~sFiles.listable
    \/ \E f \in Present : IsOVName(f) /\ sFiles.dir[f] = "unreadable"
    \/ ~\E f \in Present : HasPrefix(f, <<"o", "v">>)

\* C11 (under SpecServer): parseSecurityArtifacts returns artifacts only if
\* the three keypairs, a non-empty OV set and the TLS certificate all
\* loaded; if one of them fails it returns an error and no artifacts, and the
\* server exits with neither entities registered nor a listener.
C11_AllOrNothing ==
    Parsed =>
        /\ sa.err = Nil =>
              /\ ~SomeArtifactFails
              /\ DOMAIN sa.val.OV # {}
              /\ sa.val.TLSKeypair.loaded
              /\ sa.val.TLSKeypair.of = sa.val.PDC
              /\ \A n \in {"OC", "PDC", "VendorCA"} :
                    sa.val[n].Cert # NoBytes /\ sa.val[n].Key # NoBytes
        /\ SomeArtifactFails => sa.err # Nil
        /\ sa.err # Nil =>
              /\ sa.val = NoArtifacts
              /\ sPc = "done" /\ sExitCode = 1 /\ sExitAt = "parse"
              /\ ~registered /\ listening = <<>> /\ ~serving

C11_Witness ==
    /\ Parsed
    /\ sa.err = "found no OVs in artifacts directory"
    /\ \A f \in KeyFiles : sFiles.dir[f] = "ok"
    /\ sExitAt = "parse"

\* C12 (under SpecServer): the keys of the OV set are exactly the serials of
\* the directory's files named ov_<serial>.txt.
C12_OVKeysAreSerials ==
    (Parsed /\ sa.err = Nil) =>
        DOMAIN sa.val.OV = { SerialOfOVName(f) : f \in { g \in Present : IsOVName(g) } }

\* A bare port is localhost:<port>; an address with a colon is itself.
Normalized(addr) == IF Len(addr) = 1 THEN <<"localhost">> \o addr ELSE addr

\* C13 (under Spec): the address the client dials and the address the server
\* listens on are the normalized -bootz_addr and -address.
C13_AddressNormalized ==
    /\ dialed # <<>> => dialed = Normalized(bootzAddress)
    /\ listening # <<>> => listening = Normalized(sFlags.address)

\* C14 (under SpecServer): a server of either entry point started with an
\* empty address exits nonzero and neither listens nor serves.
C14_EmptyAddressExits ==
    (entry # "none" /\ sFlags.address = EmptyString) =>
        /\ listening = <<>>
        /\ ~serving
        /\ sPc = "done" => sExitCode > 0

\* loadCertificates has returned.
Loaded == entry = "dhcp" /\ loaded # NotLoaded

\* C19 (under SpecServer): loadCertificates returns no error only if the root
\* CA file was read, a certificate of it went into the trust bundle and the
\* key pair loaded; the server never goes on with a nil trust bundle.
C19_NilErrorMeansLoaded ==
    Loaded =>
        /\ loaded.err = Nil =>
              /\ sFiles.certs.ca.readable
              /\ AppendCertsFromPEM(sFiles.certs.ca.bytes) # {}
              /\ sFiles.certs.keyPairLoads
              /\ ~loaded.pool.nil
        /\ AppendCertsFromPEM(sFiles.certs.ca.bytes) = {} => loaded.err # Nil
        /\ (listening # <<>> \/ serving) => ~loaded.pool.nil

\* The files readOVs read into the OV set.
FilesLoaded == { f \in Present : HasPrefix(f, <<"o", "v">>) }

\* C21 (under SpecServer): different voucher files are indexed under
\* different keys: the OV set has one entry for each file loaded, and each
\* file's bytes are in it.
C21_DistinctKeys ==
    (Parsed /\ sa.err = Nil) =>
        /\ Cardinality(DOMAIN sa.val.OV) = Cardinality(FilesLoaded)
        /\ \A f \in FilesLoaded : \E k \in DOMAIN sa.val.OV : sa.val.OV[k].of = f

============================================================================
